---- MODULE Spec2Model ----
(***************************************************************************)
(* Model of python/chroma_server.py: the collection cache (get_collection) *)
(* and the HTTP handlers built on it.  The vector store (chromadb) is an   *)
(* external capability: the model keeps its list of collection names and   *)
(* the log of the calls a handler issues against it; any store call may    *)
(* raise.                                                                  *)
(***************************************************************************)
EXTENDS Integers, Sequences, FiniteSets, TLC

VARIABLES persisted, records, collections, calls, last, pc, local

vars == <<persisted, records, collections, calls, last, pc, local>>

(***************************************************************************)
(* Bounds and input domains                                                *)
(***************************************************************************)
\* longest list a request carries (ids, texts, metadatas, embeddings)
MaxLen == 2
\* number of threads that run get_collection concurrently (SpecConc)
NumCallers == 2

Names == {"default", "x"}
Callers == 1..NumCallers

\* Optional[...] fields of the pydantic models
Absent == [present |-> FALSE, val |-> <<>>]
Present(v) == [present |-> TRUE, val |-> v]
\* Python truthiness of an optional list / dict: None and empty are falsy
Truthy(o) == o.present /\ Len(o.val) > 0

\* a dict is modelled by the sequence of its keys, {} by <<>>
EmptyDict == <<>>
SomeDict == <<"k">>
Dicts == {EmptyDict, SomeDict}
\* one embedding vector is a list of floats
Vectors == {<<>>, <<1>>}

\* record ids
Ids == {1, 2}
Range(f) == {f[i] : i \in DOMAIN f}
IdLists == UNION {[1..n -> Ids] : n \in 0..MaxLen}
TextList(n) == [i \in 1..n |-> "t"]
TextLists == {TextList(n) : n \in 0..MaxLen}
MetaLists == {[i \in 1..n |-> SomeDict] : n \in 0..MaxLen}
VectorLists == {[i \in 1..n |-> <<1>>] : n \in 0..MaxLen}
Opt(S) == {Absent} \cup {Present(v) : v \in S}

\* which store calls of one request raise for a reason of the store's own
FaultKinds == {"open", "create", "data"}
Faults == SUBSET FaultKinds

(***************************************************************************)
(* Exceptions and responses                                                *)
(***************************************************************************)
NoExc == [type |-> "none", status |-> 0, msg |-> ""]
HTTPException(status, detail) == [type |-> "HTTPException", status |-> status, msg |-> detail]
StoreException(msg) == [type |-> "StoreException", status |-> 0, msg |-> msg]
\* str(e): an HTTPException prints its status with its detail
Str(e) == [code |-> e.status, msg |-> e.msg]

Success(result) == [kind |-> "ok", status |-> 200, detail |-> [code |-> 0, msg |-> "success"], result |-> result]
\* raise HTTPException(status_code=500, detail=str(e))
Wrapped500(e) == [kind |-> "http", status |-> 500, detail |-> Str(e), result |-> <<>>]
\* an exception that leaves the handler uncaught
Raw(e) == [kind |-> "raw", status |-> 500, detail |-> Str(e), result |-> <<>>]

(***************************************************************************)
(* The store (chroma_client and the collection handles)                    *)
(***************************************************************************)
\* a collection handle: the collection it is bound to, the store call that
\* returned it, and the caller that obtained it (0: a request handler)
Handle(name, how, by) == [name |-> name, how |-> how, by |-> by]
\* chroma_client
Client == Handle("", "client", 0)

\* one call against the store: the method, the collection name it concerns, the
\* object it is called on (the client or a collection handle), its arguments,
\* and whether it returned (TRUE) or raised (FALSE)
Call(call, name, on, args, ok) ==
  [call |-> call, name |-> name, on |-> on, args |-> args, ok |-> ok]

\* a collection.query call, with the result structure the store returned
QueryCall(name, on, args, ok, results) ==
  [call |-> "query", name |-> name, on |-> on, args |-> args, ok |-> ok,
   returned |-> results]

\* chroma_client.get_collection: raises when the name is not persisted
StoreGetOk(name, pers, faults) == name \in pers /\ "open" \notin faults
\* chroma_client.create_collection: raises when the name is already persisted
StoreCreateOk(name, pers, faults) == name \notin pers /\ "create" \notin faults
\* chroma_client.delete_collection: raises when the name is not persisted
StoreDropOk(name, pers, faults) == name \in pers /\ "data" \notin faults
StoreMsg(name, pers, faults, kind) ==
  IF kind \in faults THEN "store fault"
  ELSE IF name \in pers THEN "already exists" ELSE "does not exist"
\* collection.add / collection.delete on the records of one collection
StoreAdd(recs, name, ids) == [recs EXCEPT ![name] = @ \cup Range(ids)]
StoreDelete(recs, name, gone) == [recs EXCEPT ![name] = @ \ gone]

\* collections[name] = handle
CachePut(cache, name, h) ==
  [n \in DOMAIN cache \cup {name} |-> IF n = name THEN h ELSE cache[n]]
\* del collections[name]
CacheDel(cache, name) == [n \in DOMAIN cache \ {name} |-> cache[n]]

(***************************************************************************)
(* get_collection, run to completion by one request                        *)
(***************************************************************************)
\* open_or_create that returns a created collection without caching it
open_or_create_create_uncached(name, pers, cache, faults) ==
  IF StoreGetOk(name, pers, faults)
  THEN [exc |-> NoExc, persisted |-> pers,
        collections |-> CachePut(cache, name, Handle(name, "open", 0)),
        calls |-> <<Call("get_collection", name, Client, <<>>, TRUE)>>,
        handle |-> Handle(name, "open", 0)]
  ELSE IF StoreCreateOk(name, pers, faults)
  THEN [exc |-> NoExc, persisted |-> pers \cup {name},
        collections |-> cache,
        calls |-> <<Call("get_collection", name, Client, <<>>, FALSE),
                    Call("create_collection", name, Client, <<>>, TRUE)>>,
        handle |-> Handle(name, "create", 0)]
  ELSE [exc |-> StoreException(StoreMsg(name, pers, faults, "create")),
        persisted |-> pers, collections |-> cache,
        calls |-> <<Call("get_collection", name, Client, <<>>, FALSE),
                    Call("create_collection", name, Client, <<>>, FALSE)>>,
        handle |-> Handle(name, "none", 0)]

\* open_or_create that puts a cache entry before the store call has returned:
\* the entry stays when open and create both raise
open_or_create_caches_first(name, pers, cache, faults) ==
  IF StoreGetOk(name, pers, faults)
  THEN [exc |-> NoExc, persisted |-> pers,
        collections |-> CachePut(cache, name, Handle(name, "open", 0)),
        calls |-> <<Call("get_collection", name, Client, <<>>, TRUE)>>,
        handle |-> Handle(name, "open", 0)]
  ELSE IF StoreCreateOk(name, pers, faults)
  THEN [exc |-> NoExc, persisted |-> pers \cup {name},
        collections |-> CachePut(cache, name, Handle(name, "create", 0)),
        calls |-> <<Call("get_collection", name, Client, <<>>, FALSE),
                    Call("create_collection", name, Client, <<>>, TRUE)>>,
        handle |-> Handle(name, "create", 0)]
  ELSE [exc |-> StoreException(StoreMsg(name, pers, faults, "create")),
        persisted |-> pers,
        collections |-> CachePut(cache, name, Handle(name, "none", 0)),
        calls |-> <<Call("get_collection", name, Client, <<>>, FALSE),
                    Call("create_collection", name, Client, <<>>, FALSE)>>,
        handle |-> Handle(name, "none", 0)]

\* the body of "if collection_name not in collections": try to open, else create
open_or_create(name, pers, cache, faults) ==
  IF StoreGetOk(name, pers, faults)
  THEN [exc |-> NoExc, persisted |-> pers,
        collections |-> CachePut(cache, name, Handle(name, "open", 0)),
        calls |-> <<Call("get_collection", name, Client, <<>>, TRUE)>>,
        handle |-> Handle(name, "open", 0)]
  ELSE IF StoreCreateOk(name, pers, faults)
  THEN [exc |-> NoExc, persisted |-> pers \cup {name},
        collections |-> CachePut(cache, name, Handle(name, "create", 0)),
        calls |-> <<Call("get_collection", name, Client, <<>>, FALSE),
                    Call("create_collection", name, Client, <<>>, TRUE)>>,
        handle |-> Handle(name, "create", 0)]
  ELSE [exc |-> StoreException(StoreMsg(name, pers, faults, "create")),
        persisted |-> pers, collections |-> cache,
        calls |-> <<Call("get_collection", name, Client, <<>>, FALSE),
                    Call("create_collection", name, Client, <<>>, FALSE)>>,
        handle |-> Handle(name, "none", 0)]

\* get_collection without the cache test: every call goes to the store
get_collection_always_opens(name, pers, cache, faults) ==
  open_or_create(name, pers, cache, faults)

get_collection(name, pers, cache, faults) ==
  IF name \in DOMAIN cache
  THEN [exc |-> NoExc, persisted |-> pers, collections |-> cache,
        calls |-> <<>>, handle |-> cache[name]]
  ELSE open_or_create(name, pers, cache, faults)

\* the outcome of a handler: the new store and cache, the calls issued, the response
Outcome(pers, recs, cache, log, resp) ==
  [persisted |-> pers, records |-> recs, collections |-> cache, calls |-> log, resp |-> resp]

(***************************************************************************)
(* GET /, GET /health, GET /collections                                    *)
(***************************************************************************)
root(pers, recs, cache) == Outcome(pers, recs, cache, <<>>, Success("running"))

health_check(pers, recs, cache) == Outcome(pers, recs, cache, <<>>, Success("ok"))

\* list_collections that answers from the cache instead of the store
list_collections_from_cache(pers, recs, cache, faults) ==
  LET ok == "data" \notin faults
      log == <<Call("list_collections", "", Client, <<>>, ok)>>
  IN IF ok THEN Outcome(pers, recs, cache, log, Success(DOMAIN cache))
     ELSE Outcome(pers, recs, cache, log, Raw(StoreException("store fault")))

\* no try/except here: an exception of the store call leaves the handler as it is
list_collections(pers, recs, cache, faults) ==
  LET ok == "data" \notin faults
      log == <<Call("list_collections", "", Client, <<>>, ok)>>
  IN IF ok THEN Outcome(pers, recs, cache, log, Success(pers))
     ELSE Outcome(pers, recs, cache, log, Raw(StoreException("store fault")))

(***************************************************************************)
(* POST /embed                                                             *)
(***************************************************************************)
\* create_embedding that drops the cache entry when the add raises
create_embedding_evicts_on_error(name, item, pers, recs, cache, faults) ==
  LET r == get_collection(name, pers, cache, faults)
      ok == "data" \notin faults
      args == IF ~Truthy(item.embedding)
              THEN [ids |-> <<item.id>>, documents |-> <<item.text>>,
                    metadatas |-> <<item.metadata>>, embeddings |-> Absent]
              ELSE [ids |-> <<item.id>>, documents |-> <<item.text>>,
                    metadatas |-> <<item.metadata>>,
                    embeddings |-> Present(<<item.embedding.val>>)]
      log == Append(r.calls, Call("add", name, r.handle, args, ok))
  IN IF r.exc # NoExc
     THEN Outcome(r.persisted, recs, r.collections, r.calls, Wrapped500(r.exc))
     ELSE IF ok
     THEN Outcome(r.persisted, StoreAdd(recs, name, <<item.id>>), r.collections, log,
                  Success(name))
     ELSE Outcome(r.persisted, recs, CacheDel(r.collections, name), log,
                  Wrapped500(StoreException("store fault")))

create_embedding(name, item, pers, recs, cache, faults) ==
  LET r == get_collection(name, pers, cache, faults)
      ok == "data" \notin faults
      args == IF ~Truthy(item.embedding)
              THEN [ids |-> <<item.id>>, documents |-> <<item.text>>,
                    metadatas |-> <<item.metadata>>, embeddings |-> Absent]
              ELSE [ids |-> <<item.id>>, documents |-> <<item.text>>,
                    metadatas |-> <<item.metadata>>,
                    embeddings |-> Present(<<item.embedding.val>>)]
      log == Append(r.calls, Call("add", name, r.handle, args, ok))
  IN IF r.exc # NoExc
     THEN Outcome(r.persisted, recs, r.collections, r.calls, Wrapped500(r.exc))
     ELSE IF ok
     THEN Outcome(r.persisted, StoreAdd(recs, name, <<item.id>>), r.collections, log,
                  Success(name))
     ELSE Outcome(r.persisted, recs, r.collections, log,
                  Wrapped500(StoreException("store fault")))

(***************************************************************************)
(* POST /embed_batch                                                       *)
(***************************************************************************)
\* create_embeddings_batch whose add leaves out the last id of the request
create_embeddings_batch_drops_last(name, item, pers, recs, cache, faults) ==
  LET r == get_collection(name, pers, cache, faults)
      ok == "data" \notin faults
      metadatas == IF Truthy(item.metadatas) THEN item.metadatas.val
                   ELSE [i \in 1..Len(item.ids) |-> EmptyDict]
      args == IF ~Truthy(item.embeddings)
              THEN [ids |-> SubSeq(item.ids, 1, Len(item.ids) - 1), documents |-> item.texts,
                    metadatas |-> metadatas, embeddings |-> Absent]
              ELSE [ids |-> SubSeq(item.ids, 1, Len(item.ids) - 1), documents |-> item.texts,
                    metadatas |-> metadatas, embeddings |-> Present(item.embeddings.val)]
      log == Append(r.calls, Call("add", name, r.handle, args, ok))
  IN IF r.exc # NoExc
     THEN Outcome(r.persisted, recs, r.collections, r.calls, Wrapped500(r.exc))
     ELSE IF Len(item.ids) # Len(item.texts)
     THEN Outcome(r.persisted, recs, r.collections, r.calls,
                  Wrapped500(HTTPException(400, "ids and texts must have the same length")))
     ELSE IF Truthy(item.embeddings) /\ Len(item.embeddings.val) # Len(item.ids)
     THEN Outcome(r.persisted, recs, r.collections, r.calls,
                  Wrapped500(HTTPException(400, "embeddings and ids must have the same length")))
     ELSE IF ok
     THEN Outcome(r.persisted, StoreAdd(recs, name, item.ids), r.collections, log,
                  Success(Len(item.ids)))
     ELSE Outcome(r.persisted, recs, r.collections, log,
                  Wrapped500(StoreException("store fault")))

create_embeddings_batch(name, item, pers, recs, cache, faults) ==
  LET r == get_collection(name, pers, cache, faults)
      ok == "data" \notin faults
      metadatas == IF Truthy(item.metadatas) THEN item.metadatas.val
                   ELSE [i \in 1..Len(item.ids) |-> EmptyDict]
      args == IF ~Truthy(item.embeddings)
              THEN [ids |-> item.ids, documents |-> item.texts,
                    metadatas |-> metadatas, embeddings |-> Absent]
              ELSE [ids |-> item.ids, documents |-> item.texts,
                    metadatas |-> metadatas, embeddings |-> Present(item.embeddings.val)]
      log == Append(r.calls, Call("add", name, r.handle, args, ok))
  IN IF r.exc # NoExc
     THEN Outcome(r.persisted, recs, r.collections, r.calls, Wrapped500(r.exc))
     ELSE IF Len(item.ids) # Len(item.texts)
     THEN Outcome(r.persisted, recs, r.collections, r.calls,
                  Wrapped500(HTTPException(400, "ids and texts must have the same length")))
     ELSE IF Truthy(item.embeddings) /\ Len(item.embeddings.val) # Len(item.ids)
     THEN Outcome(r.persisted, recs, r.collections, r.calls,
                  Wrapped500(HTTPException(400, "embeddings and ids must have the same length")))
     ELSE IF ok
     THEN Outcome(r.persisted, StoreAdd(recs, name, item.ids), r.collections, log,
                  Success(Len(item.ids)))
     ELSE Outcome(r.persisted, recs, r.collections, log,
                  Wrapped500(StoreException("store fault")))

(***************************************************************************)
(* POST /query                                                             *)
(***************************************************************************)
\* results[key][0][i] if results[key] and results[key][0] else <default>
Component(comp, i) ==
  IF Truthy(comp) /\ Len(comp.val[1]) > 0 THEN Present(comp.val[1][i]) ELSE Absent

\* the subscript [0][i] raises IndexError when the component is shorter than ids[0]
ComponentRaises(comp, n) ==
  Truthy(comp) /\ Len(comp.val[1]) > 0 /\ Len(comp.val[1]) < n

\* process_results that fills the items from the last match backwards
process_results_reversed(results) ==
  [i \in 1..Len(results.ids[1]) |->
     [id |-> results.ids[1][Len(results.ids[1]) + 1 - i],
      text |-> Component(results.documents, i),
      metadata |-> IF Component(results.metadatas, i).present
                   THEN Component(results.metadatas, i).val ELSE EmptyDict,
      distance |-> Component(results.distances, i)]]

process_results(results) ==
  [i \in 1..Len(results.ids[1]) |->
     [id |-> results.ids[1][i],
      text |-> Component(results.documents, i),
      metadata |-> IF Component(results.metadatas, i).present
                   THEN Component(results.metadatas, i).val ELSE EmptyDict,
      distance |-> Component(results.distances, i)]]

query_similar(name, query, results, pers, recs, cache, faults) ==
  LET r == get_collection(name, pers, cache, faults)
      ok == "data" \notin faults
      params == IF Truthy(query.where)
                THEN [n_results |-> query.n_results, where |-> Present(query.where.val)]
                ELSE [n_results |-> query.n_results, where |-> Absent]
      args == IF Truthy(query.embedding)
              THEN [query_embeddings |-> Present(<<query.embedding.val>>),
                    query_texts |-> Absent, params |-> params]
              ELSE [query_embeddings |-> Absent,
                    query_texts |-> Present(<<query.query_text>>), params |-> params]
      log == Append(r.calls, QueryCall(name, r.handle, args, ok, results))
      n == Len(results.ids[1])
  IN IF r.exc # NoExc
     THEN Outcome(r.persisted, recs, r.collections, r.calls, Wrapped500(r.exc))
     ELSE IF ~ok
     THEN Outcome(r.persisted, recs, r.collections, log,
                  Wrapped500(StoreException("store fault")))
     ELSE IF \/ ComponentRaises(results.documents, n)
             \/ ComponentRaises(results.metadatas, n)
             \/ ComponentRaises(results.distances, n)
     THEN Outcome(r.persisted, recs, r.collections, log,
                  Wrapped500(StoreException("list index out of range")))
     ELSE Outcome(r.persisted, recs, r.collections, log,
                  Success([results |-> process_results(results),
                           count |-> Len(process_results(results))]))

(***************************************************************************)
(* POST /delete                                                            *)
(***************************************************************************)
\* matched: the records the store finds to satisfy the where filter
delete_embeddings(name, item, matched, pers, recs, cache, faults) ==
  LET r == get_collection(name, pers, cache, faults)
      ok == "data" \notin faults
      byIds == Append(r.calls, Call("delete", name, r.handle,
                                    [ids |-> item.ids, where |-> Absent], ok))
      byWhere == Append(r.calls, Call("delete", name, r.handle,
                                      [ids |-> Absent, where |-> item.where], ok))
  IN IF r.exc # NoExc
     THEN Outcome(r.persisted, recs, r.collections, r.calls, Wrapped500(r.exc))
     ELSE IF Truthy(item.ids)
     THEN IF ok
          THEN Outcome(r.persisted, StoreDelete(recs, name, Range(item.ids.val)),
                       r.collections, byIds, Success(Present(Len(item.ids.val))))
          ELSE Outcome(r.persisted, recs, r.collections, byIds,
                       Wrapped500(StoreException("store fault")))
     ELSE IF Truthy(item.where)
     THEN IF ok
          THEN Outcome(r.persisted, StoreDelete(recs, name, matched),
                       r.collections, byWhere, Success(Absent))
          ELSE Outcome(r.persisted, recs, r.collections, byWhere,
                       Wrapped500(StoreException("store fault")))
     ELSE Outcome(r.persisted, recs, r.collections, r.calls,
                  Wrapped500(HTTPException(400, "ids or where is required")))

(***************************************************************************)
(* DELETE /collection/{collection_name}                                    *)
(***************************************************************************)
\* delete_collection that evicts the cache entry before it calls the store
delete_collection_evicts_first(name, pers, recs, cache, faults) ==
  LET ok == StoreDropOk(name, pers, faults)
      log == <<Call("delete_collection", name, Client, <<>>, ok)>>
  IN IF ok
     THEN Outcome(pers \ {name}, [recs EXCEPT ![name] = {}], CacheDel(cache, name), log,
                  Success(name))
     ELSE Outcome(pers, recs, CacheDel(cache, name), log,
                  Wrapped500(StoreException(StoreMsg(name, pers, faults, "data"))))

\* delete_collection whose "del collections[name]" is not guarded by the
\* membership test: an uncached name raises KeyError after the store call
delete_collection_unguarded_del(name, pers, recs, cache, faults) ==
  LET ok == StoreDropOk(name, pers, faults)
      log == <<Call("delete_collection", name, Client, <<>>, ok)>>
  IN IF ok /\ name \in DOMAIN cache
     THEN Outcome(pers \ {name}, [recs EXCEPT ![name] = {}], CacheDel(cache, name), log,
                  Success(name))
     ELSE IF ok
     THEN Outcome(pers \ {name}, [recs EXCEPT ![name] = {}], cache, log,
                  Wrapped500(StoreException("KeyError")))
     ELSE Outcome(pers, recs, cache, log,
                  Wrapped500(StoreException(StoreMsg(name, pers, faults, "data"))))

\* delete_collection without the eviction of lines 309-310
delete_collection_keeps_cache(name, pers, recs, cache, faults) ==
  LET ok == StoreDropOk(name, pers, faults)
      log == <<Call("delete_collection", name, Client, <<>>, ok)>>
  IN IF ok
     THEN Outcome(pers \ {name}, [recs EXCEPT ![name] = {}], cache, log, Success(name))
     ELSE Outcome(pers, recs, cache, log,
                  Wrapped500(StoreException(StoreMsg(name, pers, faults, "data"))))

delete_collection(name, pers, recs, cache, faults) ==
  LET ok == StoreDropOk(name, pers, faults)
      log == <<Call("delete_collection", name, Client, <<>>, ok)>>
  IN IF ok
     THEN Outcome(pers \ {name}, [recs EXCEPT ![name] = {}], CacheDel(cache, name), log,
                  Success(name))
     ELSE Outcome(pers, recs, cache, log,
                  Wrapped500(StoreException(StoreMsg(name, pers, faults, "data"))))

(***************************************************************************)
(* Requests                                                                *)
(***************************************************************************)
EmbeddingItems ==
  [id : Ids, text : {"t"}, metadata : Dicts, embedding : Opt(Vectors)]
EmbeddingBatchItems ==
  [ids : IdLists, texts : TextLists, metadatas : Opt(MetaLists), embeddings : Opt(VectorLists)]
DefaultNResults == 5
QueryItems ==
  [query_text : {"q"}, n_results : {1, DefaultNResults}, where : Opt(Dicts),
   embedding : Opt(Vectors)]
DeleteItems == [ids : Opt(IdLists), where : Opt(Dicts)]

\* the document stored with a record
DocOf(id) == IF id = 1 THEN "t1" ELSE "t2"

\* what the store answers to one query: index-parallel lists, one row per
\* query; inc says which of documents, metadatas, distances the answer
\* carries, the others are None
QueryResults(ids, inc) ==
  [ids |-> <<ids>>,
   documents |-> IF "documents" \in inc
                 THEN Present(<<[i \in 1..Len(ids) |-> DocOf(ids[i])]>>) ELSE Absent,
   metadatas |-> IF "metadatas" \in inc
                 THEN Present(<<[i \in 1..Len(ids) |-> SomeDict]>>) ELSE Absent,
   distances |-> IF "distances" \in inc
                 THEN Present(<<[i \in 1..Len(ids) |-> i]>>) ELSE Absent]
Includes == SUBSET {"documents", "metadatas", "distances"}

\* the matches of a query: distinct records of the collection, at most n_results
Matches(recs, n_results) ==
  {ids \in IdLists : /\ Range(ids) \subseteq recs
                     /\ Cardinality(Range(ids)) = Len(ids)
                     /\ Len(ids) <= n_results}

Idle == [op |-> "idle", name |-> "", req |-> <<>>, resp |-> Success(<<>>)]

\* one request handled: the handler's outcome becomes the new state, and the
\* request stays on record with its response until the response is delivered
Handled(op, name, req, out) ==
  /\ persisted' = out.persisted
  /\ records' = out.records
  /\ collections' = out.collections
  /\ calls' = out.calls
  /\ last' = [op |-> op, name |-> name, req |-> req, resp |-> out.resp]
  /\ UNCHANGED <<pc, local>>

\* the server takes the next request once the previous response is delivered
Waiting == last.op = "idle"

Root ==
  /\ Waiting
  /\ Handled("root", "", <<>>, root(persisted, records, collections))

HealthCheck ==
  /\ Waiting
  /\ Handled("health_check", "", <<>>, health_check(persisted, records, collections))

ListCollections ==
  /\ Waiting
  /\ \E faults \in Faults :
       Handled("list_collections", "", <<>>,
               list_collections(persisted, records, collections, faults))

CreateEmbedding ==
  /\ Waiting
  /\ \E name \in Names, item \in EmbeddingItems, faults \in Faults :
       Handled("create_embedding", name, item,
               create_embedding(name, item, persisted, records, collections, faults))

CreateEmbeddingsBatch ==
  /\ Waiting
  /\ \E name \in Names, item \in EmbeddingBatchItems, faults \in Faults :
       Handled("create_embeddings_batch", name, item,
               create_embeddings_batch(name, item, persisted, records, collections, faults))

QuerySimilar ==
  /\ Waiting
  /\ \E name \in Names, query \in QueryItems, faults \in Faults :
       \E ids \in Matches(records[name], query.n_results), inc \in Includes :
         Handled("query_similar", name, query,
                 query_similar(name, query, QueryResults(ids, inc),
                               persisted, records, collections, faults))

DeleteEmbeddings ==
  /\ Waiting
  /\ \E name \in Names, item \in DeleteItems, faults \in Faults :
       \E matched \in SUBSET records[name] :
         Handled("delete_embeddings", name, item,
                 delete_embeddings(name, item, matched,
                                   persisted, records, collections, faults))

DeleteCollection ==
  /\ Waiting
  /\ \E name \in Names, faults \in Faults :
       Handled("delete_collection", name, <<>>,
               delete_collection(name, persisted, records, collections, faults))

\* the response reaches the caller; the server waits for the next request
Reply ==
  /\ last.op \notin {"idle", "shutdown"}
  /\ last' = Idle
  /\ calls' = <<>>
  /\ UNCHANGED <<persisted, records, collections, pc, local>>

\* shutdown_db_client: the cache is emptied and the client released; the
\* server takes no request afterwards
Shutdown ==
  /\ Waiting
  /\ collections' = <<>>
  /\ calls' = <<>>
  /\ last' = [op |-> "shutdown", name |-> "", req |-> <<>>, resp |-> Success(<<>>)]
  /\ UNCHANGED <<persisted, records, pc, local>>

Init ==
  /\ persisted \in SUBSET Names
  /\ records \in [Names -> SUBSET Ids]
  /\ \A n \in Names \ persisted : records[n] = {}
  /\ collections = <<>>
  /\ calls = <<>>
  /\ last = Idle
  /\ pc = [c \in Callers |-> "idle"]
  /\ local = [c \in Callers |-> [name |-> "", handle |-> Handle("", "none", 0)]]

Next ==
  \/ Root
  \/ HealthCheck
  \/ ListCollections
  \/ CreateEmbedding
  \/ CreateEmbeddingsBatch
  \/ QuerySimilar
  \/ DeleteEmbeddings
  \/ DeleteCollection
  \/ Reply
  \/ Shutdown

Spec == Init /\ [][Next]_vars

(***************************************************************************)
(* get_collection called from NumCallers threads at once: each statement   *)
(* that reads or writes the shared dict or calls the store is one step,    *)
(* and nothing serialises the steps of different callers                   *)
(***************************************************************************)
SetLocal(c, name, h) == [local EXCEPT ![c] = [name |-> name, handle |-> h]]

\* a caller enters get_collection(name)
Enter(c) ==
  /\ pc[c] = "idle"
  /\ \E name \in Names :
       local' = SetLocal(c, name, Handle(name, "none", c))
  /\ pc' = [pc EXCEPT ![c] = "check"]
  /\ UNCHANGED <<persisted, records, collections, calls, last>>

\* if collection_name not in collections
CheckCached(c) ==
  /\ pc[c] = "check"
  /\ pc' = [pc EXCEPT ![c] = IF local[c].name \in DOMAIN collections
                              THEN "return" ELSE "open"]
  /\ UNCHANGED <<persisted, records, collections, calls, last, local>>

\* chroma_client.get_collection(name=collection_name, ...)
OpenCall(c) ==
  /\ pc[c] = "open"
  /\ \E fault \in BOOLEAN :
       LET name == local[c].name
           ok == StoreGetOk(name, persisted, IF fault THEN {"open"} ELSE {})
       IN /\ calls' = Append(calls, Call("get_collection", name, Client,
                                         [by |-> c, fault |-> fault], ok))
          /\ local' = SetLocal(c, name, IF ok THEN Handle(name, "open", c)
                                        ELSE local[c].handle)
          /\ pc' = [pc EXCEPT ![c] = IF ok THEN "put" ELSE "create"]
  /\ UNCHANGED <<persisted, records, collections, last>>

\* except Exception: chroma_client.create_collection(name=collection_name, ...)
CreateCall(c) ==
  /\ pc[c] = "create"
  /\ \E fault \in BOOLEAN :
       LET name == local[c].name
           ok == StoreCreateOk(name, persisted, IF fault THEN {"create"} ELSE {})
       IN /\ calls' = Append(calls, Call("create_collection", name, Client,
                                         [by |-> c, fault |-> fault], ok))
          /\ persisted' = IF ok THEN persisted \cup {name} ELSE persisted
          /\ local' = SetLocal(c, name, IF ok THEN Handle(name, "create", c)
                                        ELSE local[c].handle)
          /\ pc' = [pc EXCEPT ![c] = IF ok THEN "put" ELSE "raised"]
  /\ UNCHANGED <<records, collections, last>>

\* collections[collection_name] = <the handle the store call returned>
PutCached(c) ==
  /\ pc[c] = "put"
  /\ collections' = CachePut(collections, local[c].name, local[c].handle)
  /\ pc' = [pc EXCEPT ![c] = "return"]
  /\ UNCHANGED <<persisted, records, calls, last, local>>

\* return collections[collection_name]
ReturnCached(c) ==
  /\ pc[c] = "return"
  /\ local' = SetLocal(c, local[c].name, collections[local[c].name])
  /\ pc' = [pc EXCEPT ![c] = "done"]
  /\ UNCHANGED <<persisted, records, collections, calls, last>>

NextConc ==
  \E c \in Callers :
    \/ Enter(c)
    \/ CheckCached(c)
    \/ OpenCall(c)
    \/ CreateCall(c)
    \/ PutCached(c)
    \/ ReturnCached(c)

SpecConc == Init /\ [][NextConc]_vars
(***************************************************************************)
(* Properties                                                              *)
(***************************************************************************)
BatchOp == "create_embeddings_batch"
ResolvingOps == {"create_embedding", "create_embeddings_batch", "query_similar",
                 "delete_embeddings"}
CallsOf(log, kinds) == {i \in DOMAIN log : log[i].call \in kinds}
\* a ValidationError is a response with a 4xx status, a StoreError one with a 5xx
IsValidationError(resp) == resp.kind = "http" /\ resp.status \in 400..499
IsStoreError(resp) == resp.kind = "http" /\ resp.status \in 500..599

\* C1: a batch request with len(ids) # len(texts) fails with a ValidationError
\* and issues no store call: store, records and cache are as before the call
C1_MismatchNoStoreCall ==
  [][(last'.op = BatchOp /\ Len(last'.req.ids) # Len(last'.req.texts))
       => /\ IsValidationError(last'.resp)
          /\ calls' = <<>>
          /\ persisted' = persisted
          /\ records' = records
          /\ collections' = collections]_vars

\* C2: every validation failure (batch ids/texts mismatch, batch
\* embeddings/ids mismatch, delete with neither ids nor where) is answered
\* with a 4xx status and its message, never with a 5xx
ValidationFailure ==
  \/ /\ last.op = BatchOp
     /\ \/ Len(last.req.ids) # Len(last.req.texts)
        \/ /\ last.req.embeddings.present
           /\ Len(last.req.embeddings.val) # Len(last.req.ids)
  \/ /\ last.op = "delete_embeddings"
     /\ ~last.req.ids.present
     /\ ~last.req.where.present
C2_ValidationIs4xx ==
  ValidationFailure
    => /\ IsValidationError(last.resp)
       /\ last.resp.detail.code = 0
       /\ ~IsStoreError(last.resp)

\* C3: when two or more callers resolve concurrently one name that was neither
\* cached nor persisted, and the store raises for no reason of its own, then
\* once they have all finished the store's create was called exactly once for
\* the name, no caller has failed, and all hold the handle that is cached
CallersOf(name) == {c \in Callers : pc[c] # "idle" /\ local[c].name = name}
InitiallyAbsent(name) ==
  \/ name \notin persisted
  \/ \E i \in DOMAIN calls :
       calls[i].call = "create_collection" /\ calls[i].name = name /\ calls[i].ok
NoStoreFault == \A i \in DOMAIN calls : ~calls[i].args.fault
C3_CreateExactlyOnce ==
  \A name \in Names :
    (/\ Cardinality(CallersOf(name)) >= 2
     /\ \A c \in CallersOf(name) : pc[c] \in {"done", "raised"}
     /\ InitiallyAbsent(name)
     /\ NoStoreFault)
      => /\ Cardinality({i \in DOMAIN calls : /\ calls[i].call = "create_collection"
                                              /\ calls[i].name = name}) = 1
         /\ \A c \in CallersOf(name) : pc[c] = "done"
         /\ \A c \in CallersOf(name) :
              name \in DOMAIN collections /\ local[c].handle = collections[name]

\* C4: a request on a name that has a cache entry issues no store open or
\* create, leaves cache and collection list as they are, uses the cached
\* handle for its store call, and the name stays listed in the store
C4_CacheHitNoStoreCall ==
  [][(last'.op \in ResolvingOps /\ last'.name \in DOMAIN collections)
       => /\ CallsOf(calls', {"get_collection", "create_collection"}) = {}
          /\ \A i \in DOMAIN calls' : calls'[i].on = collections[last'.name]
          /\ collections' = collections
          /\ persisted' = persisted
          /\ last'.name \in persisted']_vars
\* a query answered from a cached handle: the only store call is the query
C4_Witness ==
  /\ last.op = "query_similar"
  /\ last.resp.kind = "ok"
  /\ Len(calls) = 1
  /\ calls[1].call = "query"
  /\ calls[1].on = collections[last.name]

\* C5: when the store's delete-collection call raises (also for a name the
\* store does not have), the response is a StoreError with the store's
\* message and the cache is exactly as before
C5_FailedDropKeepsCache ==
  [][(/\ last'.op = "delete_collection"
      /\ \E i \in DOMAIN calls' : calls'[i].call = "delete_collection" /\ ~calls'[i].ok)
       => /\ IsStoreError(last'.resp)
          /\ last'.resp.detail.msg \in {"store fault", "does not exist"}
          /\ collections' = collections
          /\ persisted' = persisted]_vars
\* a drop that failed at the store although the name is cached
C5_Witness ==
  /\ last.op = "delete_collection"
  /\ IsStoreError(last.resp)
  /\ last.name \in DOMAIN collections
  /\ DOMAIN collections = Names

\* C6: a drop always issues exactly one store delete-collection call for the
\* name, cached or not; when the call returns, the response is a success, the
\* name is in neither the store's list nor the cache, and the cache entries
\* of the other names are unchanged
C6_DropAlwaysCallsStore ==
  [][last'.op = "delete_collection"
       => /\ Len(calls') = 1
          /\ calls'[1].call = "delete_collection"
          /\ calls'[1].name = last'.name
          /\ calls'[1].ok
               => /\ last'.resp.kind = "ok"
                  /\ last'.name \notin persisted'
                  /\ last'.name \notin DOMAIN collections'
                  /\ DOMAIN collections' = DOMAIN collections \ {last'.name}
                  /\ \A n \in DOMAIN collections' : collections'[n] = collections[n]]_vars
\* a successful drop that leaves the other name's cache entry in place
C6_Witness ==
  /\ last.op = "delete_collection"
  /\ last.resp.kind = "ok"
  /\ calls[1].ok
  /\ last.name \notin persisted
  /\ DOMAIN collections = Names \ {last.name}

\* C7: a batch request whose metadatas is present with len(metadatas) # len(ids)
\* fails with a ValidationError and no store add is issued
C7_MetadataMismatchRejected ==
  (/\ last.op = BatchOp
   /\ last.req.metadatas.present
   /\ Len(last.req.metadatas.val) # Len(last.req.ids))
    => /\ IsValidationError(last.resp)
       /\ CallsOf(calls, {"add"}) = {}

\* C8: a batch request whose embeddings is present (an empty list included)
\* with len(embeddings) # len(ids) fails with a ValidationError, adds no
\* record, and issues no add that leaves the vectors to the store
C8_VectorMismatchRejected ==
  [][(/\ last'.op = BatchOp
      /\ last'.req.embeddings.present
      /\ Len(last'.req.embeddings.val) # Len(last'.req.ids))
       => /\ IsValidationError(last'.resp)
          /\ records' = records
          /\ CallsOf(calls', {"add"}) = {}]_vars

\* C9: a delete request whose collection resolved uses one selection mode:
\* non-empty ids give one delete by ids (a where filter is not passed on) and
\* the count len(ids); else a where filter gives one delete by where; else no
\* delete is issued and the response is a ValidationError
Resolved == \A i \in CallsOf(calls, {"create_collection"}) : calls[i].ok
C9_OneSelectionMode ==
  (last.op = "delete_embeddings" /\ Resolved)
    => LET dels == CallsOf(calls, {"delete"}) IN
       IF Truthy(last.req.ids)
       THEN /\ Cardinality(dels) = 1
            /\ \A i \in dels : /\ calls[i].args.ids = last.req.ids
                               /\ ~calls[i].args.where.present
                               /\ calls[i].ok =>
                                    last.resp.result = Present(Len(last.req.ids.val))
       ELSE IF Truthy(last.req.where)
       THEN /\ Cardinality(dels) = 1
            /\ \A i \in dels : /\ calls[i].args.where = last.req.where
                               /\ ~calls[i].args.ids.present
       ELSE /\ dels = {}
            /\ IsValidationError(last.resp)

\* C10: no operation lets an exception of the store leave the handler
\* unconverted: a request during which a store call raised and was not
\* recovered from is answered with a ValidationError or a StoreError
C10_NoRawException ==
  /\ last.resp.kind # "raw"
  /\ (last.op # "idle" /\ calls # <<>> /\ ~calls[Len(calls)].ok)
       => IsValidationError(last.resp) \/ IsStoreError(last.resp)
\* C11: a query whose store call returned answers with one item per entry of
\* ids[0], in the store's order; item i carries ids[0][i] and the entries i of
\* documents, metadatas and distances, or null, the empty mapping and null
\* for a component the store left out; count is the number of items
QueryCallOf(log) == log[Len(log)]
C11_OneItemPerMatch ==
  (/\ last.op = "query_similar"
   /\ calls # <<>>
   /\ QueryCallOf(calls).call = "query"
   /\ QueryCallOf(calls).ok)
    => LET res == QueryCallOf(calls).returned
           out == last.resp.result
       IN /\ last.resp.kind = "ok"
          /\ Len(out.results) = Len(res.ids[1])
          /\ out.count = Len(out.results)
          /\ \A i \in 1..Len(res.ids[1]) :
               /\ out.results[i].id = res.ids[1][i]
               /\ out.results[i].text =
                    IF res.documents.present
                    THEN Present(res.documents.val[1][i]) ELSE Absent
               /\ out.results[i].metadata =
                    IF res.metadatas.present
                    THEN res.metadatas.val[1][i] ELSE EmptyDict
               /\ out.results[i].distance =
                    IF res.distances.present
                    THEN Present(res.distances.val[1][i]) ELSE Absent
\* two matches in the order 2, 1, answered without documents and distances
C11_Witness ==
  /\ last.op = "query_similar"
  /\ last.resp.kind = "ok"
  /\ last.resp.result.count = 2
  /\ last.resp.result.results[1].id = 2
  /\ last.resp.result.results[2].id = 1
  /\ ~last.resp.result.results[1].text.present
  /\ ~last.resp.result.results[1].distance.present
  /\ last.resp.result.results[1].metadata = SomeDict
\* C12: listCollections calls the store's list once and changes neither the
\* cache nor the store; when the call returns, the answer is exactly the
\* store's set of collection names, cached or not
C12_ListIsStoreList ==
  [][last'.op = "list_collections"
       => /\ collections' = collections
          /\ persisted' = persisted
          /\ records' = records
          /\ Len(calls') = 1
          /\ calls'[1].call = "list_collections"
          /\ calls'[1].ok => (last'.resp.kind = "ok" /\ last'.resp.result = persisted)]_vars
\* the list names a collection that is persisted but not cached, next to a cached one
C12_Witness ==
  /\ last.op = "list_collections"
  /\ last.resp.kind = "ok"
  /\ DOMAIN collections # {}
  /\ last.resp.result \ DOMAIN collections # {}
\* C13: while the server runs, a name leaves the store's collection list or
\* the cache only in the step of a successful dropCollection of that name
C13_OnlyDropRemoves ==
  [][last'.op # "shutdown"
       => \A n \in Names :
            (\/ n \in persisted /\ n \notin persisted'
             \/ n \in DOMAIN collections /\ n \notin DOMAIN collections')
              => /\ last'.op = "delete_collection"
                 /\ last'.name = n
                 /\ last'.resp.kind = "ok"]_vars
\* a successful drop took a cached collection away while the other one stays
C13_Witness ==
  /\ last.op = "delete_collection"
  /\ last.resp.kind = "ok"
  /\ last.name \notin persisted
  /\ last.name \notin DOMAIN collections
  /\ persisted = Names \ {last.name}
  /\ DOMAIN collections = persisted
\* C14: an ingestOne whose collection resolved issues exactly one store add,
\* for record.id with record.text and record.metadata; the add carries the
\* caller's vector if and only if the request has one
C14_VectorIffPresent ==
  (last.op = "create_embedding" /\ Resolved)
    => LET adds == CallsOf(calls, {"add"}) IN
       /\ Cardinality(adds) = 1
       /\ \A i \in adds :
            /\ calls[i].args.ids = <<last.req.id>>
            /\ calls[i].args.documents = <<last.req.text>>
            /\ calls[i].args.metadatas = <<last.req.metadata>>
            /\ calls[i].args.embeddings.present = last.req.embedding.present
            /\ last.req.embedding.present
                 => calls[i].args.embeddings.val = <<last.req.embedding.val>>

\* C15: a successful ingestBatch has issued exactly one store add, with all
\* ids of the request in request order, and acknowledges len(ids)
C15_OneAddAllIds ==
  (last.op = BatchOp /\ last.resp.kind = "ok")
    => LET adds == CallsOf(calls, {"add"}) IN
       /\ Cardinality(adds) = 1
       /\ \A i \in adds : calls[i].args.ids = last.req.ids /\ calls[i].ok
       /\ last.resp.result = Len(last.req.ids)
\* a batch of the two ids 2, 1 in this order, acknowledged
C15_Witness ==
  /\ last.op = BatchOp
  /\ last.resp.kind = "ok"
  /\ last.req.ids = <<2, 1>>
  /\ last.resp.result = 2
  /\ records[last.name] = {1, 2}
\* C16: every name that has a cache entry is a collection of the store
C16_CachedIsPersisted == DOMAIN collections \subseteq persisted
\* both collections are cached, the second one by the request just handled
C16_Witness ==
  /\ last.op \in ResolvingOps
  /\ DOMAIN collections = Names
  /\ CallsOf(calls, {"get_collection"}) # {}

\* C17: an ingestOne, ingestBatch, query or deleteRecords call whose
\* resolution did not fault leaves its name cached and persisted, whatever
\* the response; a query or a delete on a name the store did not have has
\* created an empty collection for it
ResolvedIn(log) == \A i \in CallsOf(log, {"create_collection"}) : log[i].ok
C17_ResolveLeavesCollection ==
  [][(last'.op \in ResolvingOps /\ ResolvedIn(calls'))
       => /\ last'.name \in DOMAIN collections'
          /\ last'.name \in persisted'
          /\ (/\ last'.name \notin persisted
              /\ last'.op \in {"query_similar", "delete_embeddings"})
               => /\ records'[last'.name] = {}
                  /\ \E i \in CallsOf(calls', {"create_collection"}) :
                       calls'[i].name = last'.name]_vars
\* a delete rejected for missing ids and where has created its collection
C17_Witness ==
  /\ last.op = "delete_embeddings"
  /\ last.resp.kind = "http"
  /\ last.resp.detail.code = 400
  /\ CallsOf(calls, {"create_collection"}) # {}
  /\ ResolvedIn(calls)
  /\ last.name \in persisted
  /\ last.name \in DOMAIN collections

\* C18: a request on an uncached name calls the store's open first and its
\* create only after the open raised, at most once; the name enters the cache
\* only when one of the two returned; when both raise, the cache is unchanged
\* and the response is a StoreError
C18_OpenThenCreate ==
  [][last'.op \in ResolvingOps
       => LET opens == CallsOf(calls', {"get_collection"})
              creates == CallsOf(calls', {"create_collection"})
          IN /\ last'.name \notin DOMAIN collections => opens = {1}
             /\ creates \subseteq {2}
             /\ creates # {} => (opens = {1} /\ ~calls'[1].ok)
             /\ (/\ last'.name \notin DOMAIN collections
                 /\ last'.name \in DOMAIN collections')
                  => \E i \in opens \cup creates : calls'[i].ok
             /\ (\E i \in creates : ~calls'[i].ok)
                  => /\ collections' = collections
                     /\ persisted' = persisted
                     /\ IsStoreError(last'.resp)
                     /\ last'.resp.detail.code = 0]_vars
\* open and create both raised on a name the store does not have
C18_Witness ==
  /\ last.op \in ResolvingOps
  /\ Len(calls) = 2
  /\ calls[1].call = "get_collection" /\ ~calls[1].ok
  /\ calls[2].call = "create_collection" /\ ~calls[2].ok
  /\ IsStoreError(last.resp)
  /\ last.name \notin persisted
  /\ last.name \notin DOMAIN collections
====
